---- MODULE Spec2Model ----
(***************************************************************************)
(* G1 point serialization of bn256 (mpc_serialization.go) over the base    *)
(* field gfP (gfp.go).                                                     *)
(*                                                                         *)
(* The code is modelled over a scaled field: a gfP still has FpUint64Size  *)
(* = 4 little-endian limbs, but a limb is LimbBytes = 1 byte wide instead  *)
(* of 8, so a field element takes 4 bytes on the wire instead of 32 and a  *)
(* compressed point 5 bytes instead of 33.  The prime P = 2^30 - 153 has   *)
(* the shape of the bn256 prime: the top two bits of its top limb are      *)
(* clear, P = 3 mod 4, P = 7 mod 8, P = 1 mod 3 and y^2 = x^3 + 3 has no   *)
(* point with y = 0.                                                       *)
(* Bytes are 8 bits wide and the flag bits are those of the source.        *)
(***************************************************************************)
EXTENDS Integers, Sequences, FiniteSets, TLC

----------------------------------------------------------------------------
(* Bounds of the input sets. *)

\* x-coordinates 0..MaxX are tried (plus the values next to P)
MaxX == 12
\* inputs of up to G1CompressedSize + MaxExtra bytes are tried
MaxExtra == 1
\* gfP2 coordinates 0..MaxCoord are tried (plus -1)
MaxCoord == 2
\* exponents 0..MaxExp are tried (plus exponents of one full and of two bytes)
MaxExp == 9

----------------------------------------------------------------------------
(* Program constants. *)

FpUint64Size == 4
\* bytes in one limb (a uint64 in the source; scaled to one byte)
LimbBytes == 1
LimbBase == 256 ^ LimbBytes

FqElementSize == FpUint64Size * LimbBytes
G1CompressedSize == FqElementSize + 1
G1UncompressedSize == 2 * FqElementSize

serializationMask == 31
serializationCompressed == 128
serializationInfinity == 64
serializationBigY == 32

\* the field prime (scaled): 2^30 - 153
P == 1073741671

Byte == 0 .. 255
LimbIdx == 0 .. (FpUint64Size - 1)

----------------------------------------------------------------------------
(* Integers modulo P.  The product of two residues does not fit the         *)
(* integers of TLC, so it is put together from the products of              *)
(* their 15-bit halves, with 2^30 = 2^30 - P (mod P).  The definitions of   *)
(* this module are functions, so that an argument is evaluated once.        *)

Half == 2 ^ 15

\* x * 2^15 mod P, for 0 <= x < 2^31
Shift15[x \in Nat] == ((x \div Half) * (Half * Half - P) + (x % Half) * Half) % P

\* a * b mod P, for residues a and b
MulMod[a \in Nat, b \in Nat] ==
  LET a1 == a \div Half
      a0 == a % Half
      b1 == b \div Half
      b0 == b % Half
  IN (((Shift15[Shift15[a1 * b1]] + Shift15[a1 * b0 + a0 * b1]) % P) + (a0 * b0)) % P

\* acc * base^n mod P
PowLoop[acc \in Nat, base \in Nat, n \in Nat] ==
  IF n = 0 THEN acc
  ELSE PowLoop[IF n % 2 = 1 THEN MulMod[acc, base] ELSE acc,
               MulMod[base, base], n \div 2]

PowMod[a \in Nat, n \in Nat] == PowLoop[1, a, n]

\* R = 2^(64 * FpUint64Size) in the source; here 2^(8 * FqElementSize), mod P
RModP == PowMod[2, 8 * FqElementSize]
RInvModP == PowMod[RModP, P - 2]

----------------------------------------------------------------------------
(* gfP: FpUint64Size little-endian limbs. *)

GFP == [LimbIdx -> 0 .. (LimbBase - 1)]

\* the value of the limbs of a reduced element
Val[a \in GFP] == a[0] + a[1] * LimbBase + a[2] * LimbBase ^ 2 + a[3] * LimbBase ^ 3

\* the limbs of a value
Limbs[v \in Nat] == [i \in LimbIdx |-> (v \div (LimbBase ^ i)) % LimbBase]

\* gfP{} and gfP{n}: the literal whose limb 0 is n
gfPLit[n \in Nat] == [i \in LimbIdx |-> IF i = 0 THEN n ELSE 0]

p2 == Limbs[P]
r2 == Limbs[MulMod[RModP, RModP]]
r3 == Limbs[MulMod[MulMod[RModP, RModP], RModP]]
rN1 == Limbs[RInvModP]

\* the primitive arithmetic unit, on reduced elements
gfpAdd[a \in GFP, b \in GFP] == Limbs[(Val[a] + Val[b]) % P]
gfpSub[a \in GFP, b \in GFP] == Limbs[(Val[a] + (P - Val[b])) % P]
gfpNeg[a \in GFP] == Limbs[(P - Val[a]) % P]
gfpMul[a \in GFP, b \in GFP] == Limbs[MulMod[MulMod[Val[a], Val[b]], RInvModP]]

montEncode[a \in GFP] == gfpMul[a, r2]
montDecode[a \in GFP] == gfpMul[a, gfPLit[1]]

newGFp[x \in Int] ==
  IF x >= 0 THEN montEncode[gfPLit[x]]
  ELSE montEncode[gfpNeg[gfPLit[0 - x]]]

----------------------------------------------------------------------------
(* Byte slices.  A slice is a sequence of bytes; Go index i is element i+1. *)

ByteSlice == Seq(Byte)

At(s, i) == s[i + 1]
Zeros(n) == [i \in 1 .. n |-> 0]

\* b & mask != 0, for a mask with a single bit set
HasBit(b, mask) == (b \div mask) % 2 = 1
\* b | mask, for a mask with a single bit set
OrBit(b, mask) == IF HasBit(b, mask) THEN b ELSE b + mask

\* the string written by fmt's %16.16x of one limb: its hex digits, most
\* significant first, two for every byte of the limb
HexLimb[v \in Nat] ==
  [k \in 1 .. 2 * LimbBytes |-> (v \div (16 ^ (2 * LimbBytes - k))) % 16]

\* gfP.String: the limbs from e[3] down to e[0], in hex
String == [e \in GFP |-> HexLimb[e[3]] \o HexLimb[e[2]] \o HexLimb[e[1]] \o HexLimb[e[0]]]

\* big.Int.SetString(str, 16)
SetString[str \in Seq(0 .. 15)] ==
  IF Len(str) = 0 THEN 0
  ELSE 16 * SetString[SubSeq(str, 1, Len(str) - 1)] + str[Len(str)]

gFpToBigInt == [e \in GFP |-> SetString[String[e]]]

\* big.Int.Bytes: the big-endian bytes of the absolute value, without leading
\* zero bytes (the empty slice for 0); its capacity is its length
Bytes[v \in Nat] == IF v = 0 THEN << >> ELSE Bytes[v \div 256] \o << v % 256 >>

\* binary.Read(buf, binary.BigEndian, &n) of one limb's bytes
BigEndian[s \in ByteSlice] ==
  IF Len(s) = 0 THEN 0
  ELSE 256 * BigEndian[SubSeq(s, 1, Len(s) - 1)] + s[Len(s)]

\* the limbs newGFpFromBigInt reads from inBytes: out[(FpUint64Size-1)-i] is
\* read from inBytes[i*8 : (i+1)*8]
FromBytes[inBytes \in ByteSlice] ==
  [j \in LimbIdx |->
     BigEndian[SubSeq(inBytes, ((FpUint64Size - 1) - j) * LimbBytes + 1,
                      ((FpUint64Size - 1) - j + 1) * LimbBytes)]]

\* newGFpFromBigInt: the slice expression inBytes[i*8 : (i+1)*8] panics when
\* (i+1)*8 exceeds the capacity of inBytes
newGFpFromBigInt ==
  [in \in Nat |->
     IF \E i \in LimbIdx : (i + 1) * LimbBytes > Len(Bytes[in])
     THEN [panic |-> TRUE, out |-> gfPLit[0]]
     ELSE [panic |-> FALSE, out |-> FromBytes[Bytes[in]]]]

\* byte(e[3-w] >> (56 - 8*b)) for k = 8*w + b
MarshalByte[e \in GFP, k \in Nat] ==
  LET w == k \div LimbBytes
      b == k % LimbBytes
  IN (e[3 - w] \div (256 ^ (LimbBytes - 1 - b))) % 256

\* gfP.Marshal with the limbs taken in memory order: e[w] for e[3-w]
MarshalLimbsInMemoryOrder ==
  [e \in GFP, out \in ByteSlice, off \in Nat |->
     [panic |-> Len(out) - off < FqElementSize,
      out |-> [i \in 1 .. Len(out) |->
                 IF i - 1 >= off /\ i - 1 - off < FqElementSize
                 THEN MarshalByte[[j \in LimbIdx |-> e[3 - j]], i - 1 - off]
                 ELSE out[i]]]]

\* gfP.Marshal(out[off:]): writes out[off + 8*w + b] in increasing order and
\* panics at the first index past the end of the slice
Marshal ==
  [e \in GFP, out \in ByteSlice, off \in Nat |->
     [panic |-> Len(out) - off < FqElementSize,
      out |-> [i \in 1 .. Len(out) |->
                 IF i - 1 >= off /\ i - 1 - off < FqElementSize
                 THEN MarshalByte[e, i - 1 - off]
                 ELSE out[i]]]]

\* the comparison loop of gfP.Unmarshal, from limb i down
UnmarshalCheck[e \in GFP, i \in Int] ==
  IF i < 0 THEN "bn256: coordinate equals modulus"
  ELSE IF e[i] < p2[i] THEN "nil"
  ELSE IF e[i] > p2[i] THEN "bn256: coordinate exceeds modulus"
  ELSE UnmarshalCheck[e, i - 1]

\* the bytes in[8*w+b], b = from .. 7, that gfP.Unmarshal adds into limb 3-w,
\* each shifted to its place; a byte past the end of the slice is never added
UnmarshalLimb[in \in ByteSlice, w \in Nat, from \in Nat] ==
  IF from >= LimbBytes \/ LimbBytes * w + from >= Len(in) THEN 0
  ELSE At(in, LimbBytes * w + from) * (256 ^ (LimbBytes - 1 - from))
       + UnmarshalLimb[in, w, from + 1]

\* what gfP.Unmarshal returns: the error, and the receiver afterwards
UnmarshalResult == [err : STRING, e : GFP]

\* the limbs after the additions of gfP.Unmarshal
UnmarshalSum[e \in GFP, in \in ByteSlice] ==
  [i \in LimbIdx |-> (e[i] + UnmarshalLimb[in, 3 - i, 0]) % LimbBase]

\* gfP.Unmarshal whose comparison loop falls through to "return nil": the
\* modulus itself is accepted
UnmarshalAcceptsModulus ==
  [e \in GFP, in \in ByteSlice |->
     IF Len(in) < FqElementSize
     THEN [err |-> "panic", e |-> UnmarshalSum[e, in]]
     ELSE [err |-> IF UnmarshalCheck[UnmarshalSum[e, in], 3] = "bn256: coordinate exceeds modulus"
                   THEN "bn256: coordinate exceeds modulus" ELSE "nil",
           e |-> UnmarshalSum[e, in]]]

\* gfP.Unmarshal(in): e[3-w] += uint64(in[8*w+b]) << (56 - 8*b), in the width
\* of a limb, then the comparison with p2; reading past the slice panics
Unmarshal ==
  [e \in GFP, in \in ByteSlice |->
     IF Len(in) < FqElementSize
     THEN [err |-> "panic", e |-> UnmarshalSum[e, in]]
     ELSE [err |-> UnmarshalCheck[UnmarshalSum[e, in], 3], e |-> UnmarshalSum[e, in]]]

\* bits as if set from p2, the modulus itself
InvertBitsOfP2 == Limbs[P]

\* the exponent of gfP.Invert: the limbs of p - 2
InvertBits == Limbs[P - 2]

\* sum, and the multiplications executed so far, in order
InvertState == [sum : GFP, muls : Seq(STRING)]

\* the loop of gfP.Invert from bit k of the exponent on
InvertLoop[sum \in GFP, power \in GFP, done \in Seq(STRING), k \in Nat] ==
  IF k >= FpUint64Size * 8 * LimbBytes THEN [sum |-> sum, muls |-> done]
  ELSE IF (InvertBits[k \div (8 * LimbBytes)] \div (2 ^ (k % (8 * LimbBytes)))) % 2 = 1
  THEN InvertLoop[gfpMul[sum, power], gfpMul[power, power],
                  done \o << "sum*power", "power*power" >>, k + 1]
  ELSE InvertLoop[sum, gfpMul[power, power], Append(done, "power*power"), k + 1]

\* the end of gfP.Invert: gfpMul(sum, sum, r3) and e.Set(sum)
InvertEnd[s \in InvertState] ==
  [out |-> gfpMul[s.sum, r3], muls |-> Append(s.muls, "sum*r3")]

\* a gfP.Invert that returns at once when its operand is zero
InvertReturnsEarlyOnZero ==
  [f \in GFP |->
     IF f = gfPLit[0] THEN [out |-> gfPLit[0], muls |-> << >>]
     ELSE InvertEnd[InvertLoop[rN1, f, << >>, 0]]]

\* gfP.Invert: the element set, and the multiplications executed, in order
Invert == [f \in GFP |-> InvertEnd[InvertLoop[rN1, f, << >>, 0]]]

----------------------------------------------------------------------------
(* curvePoint and G1.  A G1 is the record of its curvePoint's coordinates;  *)
(* nil is TRUE while e.p is nil.                                            *)

G1 == [nil : BOOLEAN, x : GFP, y : GFP, z : GFP, t : GFP]

curveB == newGFp[3]

curvePoint(x, y, z, t) == [nil |-> FALSE, x |-> x, y |-> y, z |-> z, t |-> t]

\* new(G1): e.p == nil
NilG1 == [nil |-> TRUE, x |-> gfPLit[0], y |-> gfPLit[0], z |-> gfPLit[0], t |-> gfPLit[0]]

IsInfinity(c) == c.z = gfPLit[0]

SetInfinity == curvePoint(gfPLit[0], newGFp[1], gfPLit[0], gfPLit[0])

\* the affine coordinates of the Jacobian point c, given zInv = 1/z
Normalize[c \in G1, zInv \in GFP] ==
  curvePoint(gfpMul[c.x, gfpMul[zInv, zInv]],
             gfpMul[gfpMul[c.y, zInv], gfpMul[zInv, zInv]],
             newGFp[1], newGFp[1])

MakeAffine[c \in G1] ==
  IF c.z = newGFp[1] THEN c
  ELSE IF c.z = newGFp[0] THEN curvePoint(gfPLit[0], newGFp[1], c.z, gfPLit[0])
  ELSE Normalize[c, Invert[c.z].out]

\* G1.Neg / curvePoint.Neg
Neg[c \in G1] == curvePoint(c.x, gfpNeg[c.y], c.z, gfPLit[0])

\* the comparison loop of G1.IsHigherY, from limb i down
IsHigherYLoop[yCopy \in GFP, yNeg \in GFP, i \in Int] ==
  IF i < 0 THEN FALSE
  ELSE IF yCopy[i] > yNeg[i] THEN TRUE
  ELSE IF yCopy[i] < yNeg[i] THEN FALSE
  ELSE IsHigherYLoop[yCopy, yNeg, i - 1]

\* G1.IsHigherY whose loop falls through to "return true": y is also called
\* higher when it equals its negation
IsHigherYOrEqual == [e \in G1 |-> ~IsHigherYLoop[gfpNeg[e.y], e.y, FpUint64Size - 1]]

IsHigherY == [e \in G1 |-> IsHigherYLoop[e.y, gfpNeg[e.y], FpUint64Size - 1]]

\* the loop of gfpComp, from limb i down
gfpCompLoop[c \in GFP, d \in GFP, i \in Int] ==
  IF i < 0 THEN 0
  ELSE IF c[i] > d[i] THEN 1
  ELSE IF c[i] = d[i] THEN gfpCompLoop[c, d, i - 1]
  ELSE -1

\* the loop of a gfpComp that starts at limb 0, as if the limbs were stored
\* most-significant first
gfpCompLoopUp[c \in GFP, d \in GFP, i \in Int] ==
  IF i >= FpUint64Size THEN 0
  ELSE IF c[i] > d[i] THEN 1
  ELSE IF c[i] = d[i] THEN gfpCompLoopUp[c, d, i + 1]
  ELSE -1

gfpCompFromLimbZero == [c \in GFP, d \in GFP |-> gfpCompLoopUp[c, d, 0]]

gfpComp == [c \in GFP, d \in GFP |-> gfpCompLoop[c, d, FpUint64Size - 1]]

----------------------------------------------------------------------------
(* Encoding. *)

\* the part of G1.EncodeCompressed after e.p.MakeAffine()
EncodeAffineCompressed[e \in G1] ==
  LET ret0 == [Zeros(G1CompressedSize) EXCEPT ![1] = OrBit(@, serializationCompressed)]
      ret1 == IF IsHigherY[e]
              THEN [ret0 EXCEPT ![1] = OrBit(@, serializationBigY)]
              ELSE ret0
      m == Marshal[montDecode[e.x], ret1, 1]
  IN IF IsInfinity(e)
     THEN [panic |-> FALSE, e |-> e,
           ret |-> [ret0 EXCEPT ![1] = OrBit(@, serializationInfinity)]]
     ELSE [panic |-> m.panic, e |-> e, ret |-> m.out]

\* G1.EncodeCompressed that returns the point at infinity before it sets the
\* infinity flag
EncodeCompressedInfinityUnflagged ==
  [e \in G1 |->
     IF IsInfinity(MakeAffine[e])
     THEN [panic |-> FALSE, e |-> MakeAffine[e],
           ret |-> [Zeros(G1CompressedSize) EXCEPT ![1] = OrBit(@, serializationCompressed)]]
     ELSE EncodeAffineCompressed[MakeAffine[e]]]

EncodeCompressed == [e \in G1 |-> EncodeAffineCompressed[MakeAffine[e]]]

\* the part of G1.EncodeUncompressed after e.p.MakeAffine()
EncodeAffineUncompressed[e \in G1] ==
  LET ret0 == Zeros(G1UncompressedSize)
      mx == Marshal[montDecode[e.x], ret0, 1]
      my == Marshal[montDecode[e.y], mx.out, G1CompressedSize]
  IN IF IsInfinity(e)
     THEN [panic |-> FALSE, e |-> e,
           ret |-> [ret0 EXCEPT ![1] = OrBit(@, serializationInfinity)]]
     ELSE IF mx.panic THEN [panic |-> TRUE, e |-> e, ret |-> mx.out]
     ELSE [panic |-> my.panic, e |-> e, ret |-> my.out]

EncodeUncompressed == [e \in G1 |-> EncodeAffineUncompressed[MakeAffine[e]]]

----------------------------------------------------------------------------
(* Decoding. *)

\* what big.Int.ModSqrt returns: nil, or the root z
SqrtResult == [nil : BOOLEAN, z : Nat]

\* big.Int.ModSqrt(x, P) for the prime P = 3 mod 4, given the Jacobi symbol j
\* of x as x^((P-1)/2): nil when x is not a square (j = -1), 0 for 0, else
\* x^((P+1)/4) mod P
ModSqrtJacobi[x \in Nat, j \in Nat] ==
  IF j = P - 1 THEN [nil |-> TRUE, z |-> 0]
  ELSE IF j = 0 THEN [nil |-> FALSE, z |-> 0]
  ELSE [nil |-> FALSE, z |-> PowMod[x, (P + 1) \div 4]]

ModSqrt[x \in Nat] == ModSqrtJacobi[x, PowMod[x, (P - 1) \div 2]]

\* what getYFromMontEncodedX returns: the error and the gfP
YResult == [err : STRING, y : GFP]

\* the part of getYFromMontEncodedX after yCoord.ModSqrt(rhsBig, P)
YFromRoot[res \in SqrtResult] ==
  IF res.nil THEN [err |-> "not a square mod P", y |-> gfPLit[0]]
  ELSE IF newGFpFromBigInt[res.z].panic THEN [err |-> "panic", y |-> gfPLit[0]]
  ELSE [err |-> "nil", y |-> montEncode[newGFpFromBigInt[res.z].out]]

\* the earlier getYFromX: the candidate rhs^((P+1)/4) is returned without
\* asking whether rhs is a square
getYWithoutResidueCheck ==
  [x \in GFP |->
     YFromRoot[[nil |-> FALSE,
                z |-> PowMod[gFpToBigInt[montDecode[gfpAdd[gfpMul[gfpMul[x, x], x], curveB]]],
                             (P + 1) \div 4]]]]

getYFromMontEncodedX ==
  [x \in GFP |->
     LET x2 == gfpMul[x, x]
         x3 == gfpMul[x2, x]
         rhs == montDecode[gfpAdd[x3, curveB]]
         rhsBig == gFpToBigInt[rhs]
     IN YFromRoot[ModSqrt[rhsBig]]]

\* the sign fix-up without its else branch: a higher root is kept even when
\* the flag asks for the lower one
FixSignOnlyWhenFlagSet ==
  [e \in G1, flags \in Byte |->
     IF ~IsHigherY[e]
     THEN IF HasBit(flags, serializationBigY) THEN Neg[e] ELSE e
     ELSE e]

\* the sign fix-up that ends G1.DecodeCompressed
FixSign ==
  [e \in G1, flags \in Byte |->
     IF ~IsHigherY[e]
     THEN IF HasBit(flags, serializationBigY) THEN Neg[e] ELSE e
     ELSE IF ~HasBit(flags, serializationBigY) THEN Neg[e] ELSE e]

\* the part of G1.DecodeCompressed after the x-coordinate is unmarshalled into
\* the receiver e, with g what getYFromMontEncodedX returns for it
DecodeY[e \in G1, g \in YResult, encoding \in ByteSlice] ==
  IF g.err # "nil" THEN [err |-> g.err, e |-> e, reads |-> 0 .. (Len(encoding) - 1)]
  ELSE [err |-> "nil", e |-> FixSign[[e EXCEPT !.y = g.y], At(encoding, 0)],
        reads |-> 0 .. (Len(encoding) - 1)]

\* the part of G1.DecodeCompressed that decompresses a point other than
\* infinity into the receiver e, with u what e.p.x.Unmarshal(bin[1:]) returns
DecodeX[e \in G1, u \in UnmarshalResult, encoding \in ByteSlice] ==
  IF u.err # "nil"
  THEN [err |-> u.err, e |-> [e EXCEPT !.x = u.e], reads |-> 0 .. (Len(encoding) - 1)]
  ELSE DecodeY[[e EXCEPT !.x = montEncode[u.e]],
               getYFromMontEncodedX[montEncode[u.e]], encoding]

\* the part of G1.DecodeCompressed after the receiver's point is reset to e
DecodeInto[e \in G1, encoding \in ByteSlice] ==
  LET bin == [i \in 1 .. G1CompressedSize |-> encoding[i]]
      all == 0 .. (Len(encoding) - 1)
  IN IF HasBit(At(encoding, 0), serializationInfinity)
     THEN IF HasBit(At(encoding, 0), serializationBigY)
          THEN [err |-> "high Y bit improperly set", e |-> e, reads |-> all]
          ELSE IF \E i \in 0 .. (Len(bin) - 1) : At(bin, i) # 0
          THEN [err |-> "invalid infinity encoding", e |-> e, reads |-> all]
          ELSE [err |-> "nil", e |-> SetInfinity, reads |-> all]
     ELSE DecodeX[e, Unmarshal[e.x, SubSeq(bin, 2, Len(bin))], encoding]

\* G1.DecodeCompressed with its first two checks exchanged: encoding[0] is
\* read before the length is known
DecodeCompressedFlagFirst ==
  [e0 \in G1, encoding \in ByteSlice |->
     IF Len(encoding) = 0
     THEN [err |-> "panic", e |-> e0, reads |-> {0}]
     ELSE IF ~HasBit(At(encoding, 0), serializationCompressed)
     THEN [err |-> "point isn't compressed", e |-> e0, reads |-> {0}]
     ELSE IF Len(encoding) # G1CompressedSize
     THEN [err |-> "wrong encoded point size", e |-> e0, reads |-> {0}]
     ELSE DecodeInto[IF e0.nil
                     THEN curvePoint(gfPLit[0], gfPLit[0], gfPLit[0], gfPLit[0])
                     ELSE curvePoint(gfPLit[0], gfPLit[0], newGFp[1], newGFp[1]),
                     encoding]]

\* G1.DecodeCompressed(encoding) on the receiver e0: the error returned ("nil"
\* for none, "panic" for a run-time panic), the receiver afterwards and the
\* indices of encoding that were read (the debug prints, which only format
\* their arguments for the standard output, are left out)
DecodeCompressed ==
  [e0 \in G1, encoding \in ByteSlice |->
     IF Len(encoding) # G1CompressedSize
     THEN [err |-> "wrong encoded point size", e |-> e0, reads |-> {}]
     ELSE IF ~HasBit(At(encoding, 0), serializationCompressed)
     THEN [err |-> "point isn't compressed", e |-> e0, reads |-> {0}]
     ELSE DecodeInto[IF e0.nil
                     THEN curvePoint(gfPLit[0], gfPLit[0], gfPLit[0], gfPLit[0])
                     ELSE curvePoint(gfPLit[0], gfPLit[0], newGFp[1], newGFp[1]),
                     encoding]]

----------------------------------------------------------------------------
(* gfP2: the quadratic extension, value x*i + y with i^2 = -1. *)

GFP2 == [x : GFP, y : GFP]

\* gfP2.SetZero
Fp2Zero == [x |-> gfPLit[0], y |-> gfPLit[0]]

\* gfP2.SetOne
Fp2One == [x |-> gfPLit[0], y |-> newGFp[1]]

\* gfP2.Set
Set == [a \in GFP2 |-> [x |-> a.x, y |-> a.y]]

\* gfP2.Mul: tx, t and ty are temporaries and e is written last, so e may be
\* a or b
Mul ==
  [a \in GFP2, b \in GFP2 |->
     [x |-> gfpAdd[gfpMul[a.x, b.y], gfpMul[b.x, a.y]],
      y |-> gfpSub[gfpMul[a.y, b.y], gfpMul[a.x, b.x]]]]

\* gfpAdd(t, t, t)
Double[t \in GFP] == gfpAdd[t, t]

\* a gfP2.MulXi that leaves out the last addition of a.x: 8x + y for 9x + y
MulXiWithEightX ==
  [a \in GFP2 |->
     [x |-> gfpAdd[Double[Double[Double[a.x]]], a.y],
      y |-> gfpSub[gfpAdd[Double[Double[Double[a.y]]], a.y], a.x]]]

\* t doubled three times, plus t: the four gfpAdd calls of gfP2.MulXi that
\* leave 9t
NineTimes[t \in GFP] == gfpAdd[Double[Double[Double[t]]], t]

\* gfP2.MulXi: tx and ty are temporaries and e is written last, so e may be a
MulXi ==
  [a \in GFP2 |->
     [x |-> gfpAdd[NineTimes[a.x], a.y],
      y |-> gfpSub[NineTimes[a.y], a.x]]]

\* a gfP2.Square whose first subtraction has its operands exchanged
SquareOfXMinusY ==
  [a \in GFP2 |->
     [x |-> gfpAdd[gfpMul[a.x, a.y], gfpMul[a.x, a.y]],
      y |-> gfpMul[gfpSub[a.x, a.y], gfpAdd[a.x, a.y]]]]

\* gfP2.Square: tx and ty are temporaries and e is written last
Square ==
  [a \in GFP2 |->
     [x |-> gfpAdd[gfpMul[a.x, a.y], gfpMul[a.x, a.y]],
      y |-> gfpMul[gfpSub[a.y, a.x], gfpAdd[a.x, a.y]]]]

\* the part of gfP2.Invert after inv.Invert(t1): e.x is written first, and
\* a.y is read after it; when e is a, a.y is read from the element that
\* holds the new x
InvertWith[a \in GFP2, inv \in GFP, aliased \in BOOLEAN] ==
  [x |-> gfpMul[gfpNeg[a.x], inv],
   y |-> gfpMul[(IF aliased
                 THEN [a EXCEPT !.x = gfpMul[gfpNeg[a.x], inv]]
                 ELSE a).y, inv]]

\* a gfP2.Invert without the negation of a.x
gfP2InvertWithoutNeg ==
  [a \in GFP2, aliased \in BOOLEAN |->
     [x |-> gfpMul[a.x, Invert[gfpAdd[gfpMul[a.x, a.x], gfpMul[a.y, a.y]]].out],
      y |-> gfpMul[a.y, Invert[gfpAdd[gfpMul[a.x, a.x], gfpMul[a.y, a.y]]].out]]]

\* gfP2.Invert, with the receiver being the operand (aliased) or not
gfP2Invert ==
  [a \in GFP2, aliased \in BOOLEAN |->
     InvertWith[a, Invert[gfpAdd[gfpMul[a.x, a.x], gfpMul[a.y, a.y]]].out, aliased]]

\* the loops of a gfP2.Exp that tests the bits of each byte from 2^0 up
ExpLoopLowBitFirst[res \in GFP2, base \in GFP2, foundOne \in BOOLEAN, exponentBytes \in ByteSlice, k \in Nat, done \in Seq(STRING)] ==
  IF k >= 8 * Len(exponentBytes) THEN [out |-> res, muls |-> done]
  ELSE LET sq == IF foundOne THEN Mul[res, res] ELSE res
           sqDone == IF foundOne THEN Append(done, "res*res") ELSE done
       IN IF (At(exponentBytes, k \div 8) \div (2 ^ (k % 8))) % 2 = 1
          THEN ExpLoopLowBitFirst[Mul[sq, base], base, TRUE, exponentBytes, k + 1,
                                  Append(sqDone, "res*base")]
          ELSE ExpLoopLowBitFirst[sq, base, foundOne, exponentBytes, k + 1, sqDone]

ExpLowBitFirst ==
  [e \in GFP2, exponent \in Nat |->
     ExpLoopLowBitFirst[Fp2One, Set[e], FALSE, Bytes[exponent], 0, << >>]]

\* the loops of gfP2.Exp from bit k on, k = 8*i + j: bit 2^(7-j) of byte i
ExpLoop[res \in GFP2, base \in GFP2, foundOne \in BOOLEAN, exponentBytes \in ByteSlice, k \in Nat, done \in Seq(STRING)] ==
  IF k >= 8 * Len(exponentBytes) THEN [out |-> res, muls |-> done]
  ELSE LET sq == IF foundOne THEN Mul[res, res] ELSE res
           sqDone == IF foundOne THEN Append(done, "res*res") ELSE done
       IN IF (At(exponentBytes, k \div 8) \div (2 ^ (7 - (k % 8)))) % 2 = 1
          THEN ExpLoop[Mul[sq, base], base, TRUE, exponentBytes, k + 1,
                       Append(sqDone, "res*base")]
          ELSE ExpLoop[sq, base, foundOne, exponentBytes, k + 1, sqDone]

\* gfP2.Exp: the element e is set to, and the Mul calls executed, in order
Exp ==
  [e \in GFP2, exponent \in Nat |->
     ExpLoop[Fp2One, Set[e], FALSE, Bytes[exponent], 0, << >>]]

----------------------------------------------------------------------------
(* The inputs the callers supply. *)

\* x-coordinates tried: the small ones and the two largest of the field
XS == (0 .. MaxX) \cup {P - 2, P - 1}

\* x^3 + 3 mod P, and its square-root candidate
RhsOf[x \in Nat] == (MulMod[MulMod[x, x], x] + 3) % P
RootOf[x \in Nat] == PowMod[RhsOf[x], (P + 1) \div 4]

\* the affine point (x, y), coordinates in Montgomery form
Affine[x \in Nat, y \in Nat] ==
  curvePoint(montEncode[Limbs[x]], montEncode[Limbs[y]], newGFp[1], newGFp[1])

\* the Jacobian point (x*z^2, y*z^3, z) of the affine point (x, y)
Jacobian[x \in Nat, y \in Nat, z \in Nat] ==
  curvePoint(montEncode[Limbs[MulMod[x, MulMod[z, z]]]],
             montEncode[Limbs[MulMod[y, MulMod[MulMod[z, z], z]]]],
             montEncode[Limbs[z]], montEncode[Limbs[MulMod[z, z]]])

Infinity == SetInfinity

\* the points of the curve with an x-coordinate of XS, both signs of y
CurvePoints ==
  UNION {IF MulMod[RootOf[x], RootOf[x]] = RhsOf[x]
         THEN {Affine[x, RootOf[x]], Affine[x, P - RootOf[x]]}
         ELSE {} : x \in XS}

\* the generator (1, 2) and its negation in Jacobian coordinates with z = 2
JacobianPoints == {Jacobian[1, 2, 2], Jacobian[1, P - 2, 2]}

\* y = 0: on no point of this curve, kept as the boundary case of IsHigherY
ZeroYPoint == Affine[1, 0]

\* infinity as curve arithmetic leaves it: z = 0, x and y not normalised
JacobianInfinity == curvePoint(newGFp[1], newGFp[1], gfPLit[0], gfPLit[0])

Points == CurvePoints \cup JacobianPoints \cup {Infinity, JacobianInfinity, ZeroYPoint}

\* y^2 = x^3 + 3 for the affine point c (Montgomery form), or c is infinity
OnCurve(c) ==
  \/ IsInfinity(c)
  \/ /\ c.z = newGFp[1]
     /\ gfpMul[c.y, c.y] = gfpAdd[gfpMul[gfpMul[c.x, c.x], c.x], curveB]

\* the G1 values a decoder is called on: new(G1), and G1s used before
Receivers == {NilG1, Affine[1, 2], Infinity}

\* the big-endian bytes of v, FqElementSize of them
BEBytes[v \in Nat] == [k \in 1 .. FqElementSize |-> (v \div (256 ^ (FqElementSize - k))) % 256]

\* coordinate payloads: the x-coordinates of XS, P, P + 1, a value whose top
\* byte alone exceeds that of P, and the largest payload
Payloads ==
  {BEBytes[x] : x \in XS} \cup
  {BEBytes[P], BEBytes[P + 1],
   [k \in 1 .. FqElementSize |-> IF k = 1 THEN BEBytes[P][1] + 1 ELSE 0],
   [k \in 1 .. FqElementSize |-> 255]}

\* flag bytes: every combination of the three flag bits, bit 0 clear or set
FlagBytes == {32 * f + low : f \in 0 .. 7, low \in 0 .. 1}

\* inputs of the right length
SizedInputs == {<< f >> \o pl : f \in FlagBytes, pl \in Payloads}

\* inputs of every other length up to G1CompressedSize + MaxExtra
OtherInputs ==
  {SubSeq(<< f >> \o BEBytes[1] \o Zeros(MaxExtra), 1, n) :
     f \in {0, serializationCompressed, serializationCompressed + serializationInfinity},
     n \in (0 .. (G1CompressedSize + MaxExtra)) \ {G1CompressedSize}}

Inputs == SizedInputs \cup OtherInputs

\* gfP2 operands, both coordinates in Montgomery form
Fp2Inputs ==
  {[x |-> newGFp[i], y |-> newGFp[j]] :
     i \in (0 .. MaxCoord) \cup {-1}, j \in (0 .. MaxCoord) \cup {-1}}

\* exponents handed to gfP2.Exp
Exponents == (0 .. MaxExp) \cup {255, 256, 257}

\* xi = i + 9
Xi == [x |-> newGFp[1], y |-> newGFp[9]]

\* field elements handed to gfP.Invert and getYFromMontEncodedX, in
\* Montgomery form
FieldInputs == {newGFp[x] : x \in 0 .. MaxX}

\* what a gfP holds before it receives an Unmarshal: the zero value gfP{},
\* gfP{1}, or an element in use
ReceiverLimbs == {gfPLit[0], gfPLit[1], newGFp[1]}

----------------------------------------------------------------------------
(* State: two G1 objects a and b, a byte slice buf, a field element fx, and *)
(* what the calls made so far returned.                                     *)

VARIABLES
  given,    \* what the caller starts from: "point", "bytes", "field" or "fp2"
  a,        \* the G1 that is encoded, negated and compared
  b,        \* the G1 that receives: b.DecodeCompressed(buf), b.Neg(a)
  buf,      \* the bytes returned by an encoder, or supplied to the decoder
  fx,       \* the argument of getYFromMontEncodedX
  fy,       \* the gfP returned by getYFromMontEncodedX
  ops,      \* the calls made so far, in order
  err,      \* the outcome of the last call: "nil", an error, or "panic"
  higherA,  \* what a.IsHigherY() returned
  higherB,  \* what b.IsHigherY() returned
  reads,    \* the indices of buf that DecodeCompressed read
  cmp,      \* what gfpComp(&b.y, &a.y) returned
  fz,       \* the gfP written by gfpMul(fz, fx, fy), or receiving fz.Unmarshal(buf)
  muls,     \* the multiplications the last Invert or Exp executed, in order
  q,        \* the gfP2 operand
  e2,       \* the gfP2 that receives: e2.Square(q), e2.Invert(q), e2.Exp(n), ...
  e3,       \* a second gfP2 receiver: e3.Mul(q, q), e3.Mul(q, e2), ...
  n,        \* the exponent handed to gfP2.Exp
  enc       \* the bytes returned by b.EncodeCompressed() after a decode

vars == << given, a, b, buf, fx, fy, ops, err, higherA, higherB, reads,
           cmp, fz, muls, q, e2, e3, n, enc >>

Init ==
  /\ ops = << >>
  /\ err = "nil"
  /\ fy = gfPLit[0]
  /\ higherA = FALSE
  /\ higherB = FALSE
  /\ reads = {}
  /\ cmp = 0
  /\ muls = << >>
  /\ enc = << >>
  /\ e2 = Fp2Zero
  /\ e3 = Fp2Zero
  /\ \/ /\ given = "point"
        /\ a \in Points
        /\ b \in Receivers
        /\ buf = << >>
        /\ fx = gfPLit[0]
        /\ fz = gfPLit[0]
        /\ q = Fp2Zero
        /\ n = 0
     \/ /\ given = "bytes"
        /\ a = Infinity
        /\ b \in Receivers
        /\ buf \in Inputs
        /\ fx = gfPLit[0]
        /\ fz = gfPLit[0]
        /\ q = Fp2Zero
        /\ n = 0
     \/ /\ given = "field"
        /\ a = Infinity
        /\ b = NilG1
        /\ buf = << >>
        /\ fx \in FieldInputs
        /\ fz \in ReceiverLimbs
        /\ q = Fp2Zero
        /\ n = 0
     \/ /\ given = "fp2"
        /\ a = Infinity
        /\ b = NilG1
        /\ buf = << >>
        /\ fx = gfPLit[0]
        /\ fz = gfPLit[0]
        /\ q \in Fp2Inputs
        /\ n = 0

\* buf := a.EncodeCompressed()
CallEncodeCompressed ==
  /\ given = "point"
  /\ ops = << >>
  /\ \E r \in {EncodeCompressed[a]} :
        /\ a' = r.e
        /\ buf' = r.ret
        /\ err' = IF r.panic THEN "panic" ELSE "nil"
  /\ ops' = Append(ops, "EncodeCompressed")
  /\ UNCHANGED << given, b, fx, fy, higherA, higherB, reads >>
  /\ UNCHANGED << enc, cmp, fz, muls, q, e2, e3, n >>

\* buf := a.EncodeUncompressed()
CallEncodeUncompressed ==
  /\ given = "point"
  /\ ops = << >>
  /\ \E r \in {EncodeUncompressed[a]} :
        /\ a' = r.e
        /\ buf' = r.ret
        /\ err' = IF r.panic THEN "panic" ELSE "nil"
  /\ ops' = Append(ops, "EncodeUncompressed")
  /\ UNCHANGED << given, b, fx, fy, higherA, higherB, reads >>
  /\ UNCHANGED << enc, cmp, fz, muls, q, e2, e3, n >>

\* err := b.DecodeCompressed(buf), on supplied bytes or on the bytes that
\* a.EncodeCompressed() returned
CallDecodeCompressed ==
  /\ \/ given = "bytes" /\ ops = << >>
     \/ ops = << "EncodeCompressed" >> /\ err = "nil"
  /\ \E r \in {DecodeCompressed[b, buf]} :
        /\ b' = r.e
        /\ err' = r.err
        /\ reads' = r.reads
  /\ ops' = Append(ops, "DecodeCompressed")
  /\ UNCHANGED << given, a, buf, fx, fy, higherA, higherB >>
  /\ UNCHANGED << enc, cmp, fz, muls, q, e2, e3, n >>

\* b.Neg(a)
CallNeg ==
  /\ given = "point"
  /\ ops = << >>
  /\ b' = Neg[a]
  /\ err' = "nil"
  /\ ops' = Append(ops, "Neg")
  /\ UNCHANGED << given, a, buf, fx, fy, higherA, higherB, reads >>
  /\ UNCHANGED << enc, cmp, fz, muls, q, e2, e3, n >>

\* higherA := a.IsHigherY(), on a point or on a point and its negation
CallIsHigherYA ==
  /\ given = "point"
  /\ ops \in {<< >>, << "Neg" >>, << "Neg", "b.IsHigherY" >>}
  /\ higherA' = IsHigherY[a]
  /\ err' = "nil"
  /\ ops' = Append(ops, "a.IsHigherY")
  /\ UNCHANGED << given, a, b, buf, fx, fy, higherB, reads >>
  /\ UNCHANGED << enc, cmp, fz, muls, q, e2, e3, n >>

\* higherB := b.IsHigherY(), on the negation or on a decoded point
CallIsHigherYB ==
  /\ \/ ops \in {<< "Neg" >>, << "Neg", "a.IsHigherY" >>}
     \/ ops = << "DecodeCompressed" >> /\ err = "nil"
  /\ higherB' = IsHigherY[b]
  /\ err' = "nil"
  /\ ops' = Append(ops, "b.IsHigherY")
  /\ UNCHANGED << given, a, b, buf, fx, fy, higherA, reads >>
  /\ UNCHANGED << enc, cmp, fz, muls, q, e2, e3, n >>

\* cmp := gfpComp(&b.y, &a.y), on a point a and its negation b
CallGfpComp ==
  /\ ops = << "Neg", "b.IsHigherY" >>
  /\ cmp' = gfpComp[b.y, a.y]
  /\ err' = "nil"
  /\ ops' = Append(ops, "gfpComp")
  /\ UNCHANGED << given, a, b, buf, fx, fy, higherA, higherB, reads >>
  /\ UNCHANGED << enc, fz, muls, q, e2, e3, n >>

\* fy.Invert(fx)
CallInvert ==
  /\ given = "field"
  /\ ops = << >>
  /\ \E r \in {Invert[fx]} :
        /\ fy' = r.out
        /\ muls' = r.muls
  /\ err' = "nil"
  /\ ops' = Append(ops, "Invert")
  /\ UNCHANGED << given, a, b, buf, fx, higherA, higherB, reads >>
  /\ UNCHANGED << enc, cmp, fz, q, e2, e3, n >>

\* gfpMul(fz, fx, fy), on an element and its inverse
CallGfpMul ==
  /\ ops = << "Invert" >>
  /\ fz' = gfpMul[fx, fy]
  /\ err' = "nil"
  /\ ops' = Append(ops, "gfpMul")
  /\ UNCHANGED << given, a, b, buf, fx, fy, higherA, higherB, reads >>
  /\ UNCHANGED << enc, cmp, muls, q, e2, e3, n >>

\* e2.Set(q)
CallSet ==
  /\ given = "fp2"
  /\ ops = << >>
  /\ e2' = Set[q]
  /\ err' = "nil"
  /\ ops' = Append(ops, "gfP2.Set")
  /\ UNCHANGED << given, a, b, buf, fx, fy, higherA, higherB, reads >>
  /\ UNCHANGED << enc, cmp, fz, muls, q, e3, n >>

\* e2.Square(q)
CallSquare ==
  /\ given = "fp2"
  /\ ops = << >>
  /\ e2' = Square[q]
  /\ err' = "nil"
  /\ ops' = Append(ops, "gfP2.Square")
  /\ UNCHANGED << given, a, b, buf, fx, fy, higherA, higherB, reads >>
  /\ UNCHANGED << enc, cmp, fz, muls, q, e3, n >>

\* e2.Invert(q), or e2.Invert(e2) on the copy e2 of q
CallInvert2 ==
  /\ given = "fp2"
  /\ \/ ops = << >> /\ e2' = gfP2Invert[q, FALSE]
     \/ ops = << "gfP2.Set" >> /\ e2' = gfP2Invert[e2, TRUE]
  /\ err' = "nil"
  /\ ops' = Append(ops, "gfP2.Invert")
  /\ UNCHANGED << given, a, b, buf, fx, fy, higherA, higherB, reads >>
  /\ UNCHANGED << enc, cmp, fz, muls, q, e3, n >>

\* e2.MulXi(q), or e2.MulXi(e2) on the copy e2 of q
CallMulXi ==
  /\ given = "fp2"
  /\ \/ ops = << >> /\ e2' = MulXi[q]
     \/ ops = << "gfP2.Set" >> /\ e2' = MulXi[e2]
  /\ err' = "nil"
  /\ ops' = Append(ops, "gfP2.MulXi")
  /\ UNCHANGED << given, a, b, buf, fx, fy, higherA, higherB, reads >>
  /\ UNCHANGED << enc, cmp, fz, muls, q, e3, n >>

\* e2.Exp(n) on the copy e2 of q
CallExp ==
  /\ ops = << "gfP2.Set" >>
  /\ \E exponent \in Exponents :
       \E r \in {Exp[e2, exponent]} :
          /\ n' = exponent
          /\ e2' = r.out
          /\ muls' = r.muls
  /\ err' = "nil"
  /\ ops' = Append(ops, "gfP2.Exp")
  /\ UNCHANGED << given, a, b, buf, fx, fy, higherA, higherB, reads >>
  /\ UNCHANGED << enc, cmp, fz, q, e3 >>

\* e3.Mul(q, q) after a Square, e3.Mul(q, e2) after an Invert and
\* e3.Mul(q, xi) after a MulXi
CallMul ==
  /\ ops # << >>
  /\ \/ ops[Len(ops)] = "gfP2.Square" /\ e3' = Mul[q, q]
     \/ ops[Len(ops)] = "gfP2.Invert" /\ e3' = Mul[q, e2]
     \/ ops[Len(ops)] = "gfP2.MulXi" /\ e3' = Mul[q, Xi]
  /\ err' = "nil"
  /\ ops' = Append(ops, "gfP2.Mul")
  /\ UNCHANGED << given, a, b, buf, fx, fy, higherA, higherB, reads >>
  /\ UNCHANGED << enc, cmp, fz, muls, q, e2, n >>

\* fy, err := getYFromMontEncodedX(fx)
CallGetY ==
  /\ given = "field"
  /\ ops = << >>
  /\ \E r \in {getYFromMontEncodedX[fx]} :
        /\ fy' = r.y
        /\ err' = r.err
  /\ ops' = Append(ops, "getYFromMontEncodedX")
  /\ UNCHANGED << given, a, b, buf, fx, higherA, higherB, reads >>
  /\ UNCHANGED << enc, cmp, fz, muls, q, e2, e3, n >>

\* enc := b.EncodeCompressed(), on the point that b.DecodeCompressed(buf)
\* produced
CallEncodeDecoded ==
  /\ given = "bytes"
  /\ ops = << "DecodeCompressed" >>
  /\ err = "nil"
  /\ \E r \in {EncodeCompressed[b]} :
        /\ b' = r.e
        /\ enc' = r.ret
        /\ err' = IF r.panic THEN "panic" ELSE "nil"
  /\ ops' = Append(ops, "b.EncodeCompressed")
  /\ UNCHANGED << given, a, buf, fx, fy, higherA, higherB, reads >>
  /\ UNCHANGED << cmp, fz, muls, q, e2, e3, n >>

\* buf := make([]byte, FqElementSize); fx.Marshal(buf)
CallMarshal ==
  /\ given = "field"
  /\ ops = << >>
  /\ \E r \in {Marshal[fx, Zeros(FqElementSize), 0]} :
        /\ buf' = r.out
        /\ err' = IF r.panic THEN "panic" ELSE "nil"
  /\ ops' = Append(ops, "Marshal")
  /\ UNCHANGED << given, a, b, fx, fy, higherA, higherB, reads >>
  /\ UNCHANGED << enc, cmp, fz, muls, q, e2, e3, n >>

\* err := fz.Unmarshal(buf), on the bytes that fx.Marshal wrote
CallUnmarshal ==
  /\ ops = << "Marshal" >>
  /\ err = "nil"
  /\ \E r \in {Unmarshal[fz, buf]} :
        /\ fz' = r.e
        /\ err' = r.err
  /\ ops' = Append(ops, "Unmarshal")
  /\ UNCHANGED << given, a, b, buf, fx, fy, higherA, higherB, reads >>
  /\ UNCHANGED << enc, cmp, muls, q, e2, e3, n >>

Next ==
  \/ CallEncodeCompressed
  \/ CallEncodeUncompressed
  \/ CallDecodeCompressed
  \/ CallNeg
  \/ CallIsHigherYA
  \/ CallIsHigherYB
  \/ CallGfpComp
  \/ CallInvert
  \/ CallGfpMul
  \/ CallSet
  \/ CallSquare
  \/ CallInvert2
  \/ CallMulXi
  \/ CallExp
  \/ CallMul
  \/ CallGetY
  \/ CallEncodeDecoded
  \/ CallMarshal
  \/ CallUnmarshal

Spec == Init /\ [][Next]_vars

----------------------------------------------------------------------------
(* Properties. *)

\* the call that returned last
LastOp == IF ops = << >> THEN "none" ELSE ops[Len(ops)]

\* c and d are the same point: both infinity, or the same affine x and y
SamePoint(c, d) ==
  IF IsInfinity(c) THEN IsInfinity(d)
  ELSE ~IsInfinity(d) /\ d.x = c.x /\ d.y = c.y

\* buf is a compressed encoding of full length, flagged compressed
WellFormed == Len(buf) = G1CompressedSize /\ HasBit(buf[1], serializationCompressed)

\* the coordinate bytes of buf
Payload == SubSeq(buf, 2, Len(buf))

\* the coordinate bytes s, read as a big-endian integer, are at least P
AtLeastP(s) == s[1] > BEBytes[P][1] \/ BigEndian[s] >= P

RangeErrors == {"bn256: coordinate exceeds modulus", "bn256: coordinate equals modulus"}

\* C1: for every valid affine point, infinity included, DecodeCompressed on
\* the bytes EncodeCompressed returned succeeds and yields the same point.
C1_CompressedRoundTrip ==
  (ops = << "EncodeCompressed", "DecodeCompressed" >> /\ OnCurve(a))
    => (err = "nil" /\ SamePoint(a, b))

\* C2 as stated: EncodeCompressed of infinity returns G1CompressedSize bytes,
\* the first 0x40 (only the infinity bit), the others zero.
C2_InfinityIs0x40 ==
  (ops = << "EncodeCompressed" >> /\ IsInfinity(a))
    => (err = "nil" /\ buf = << serializationInfinity >> \o Zeros(FqElementSize))

\* C2, amended: EncodeCompressed of infinity returns G1CompressedSize bytes,
\* the first 0xC0 (the compressed and the infinity bit, BIG_Y clear), the
\* others zero.
C2_InfinityIs0xC0 ==
  (ops = << "EncodeCompressed" >> /\ IsInfinity(a))
    => (err = "nil"
        /\ buf = << serializationCompressed + serializationInfinity >> \o Zeros(FqElementSize))

C2_Witness ==
  ops = << "EncodeCompressed" >> /\ IsInfinity(a) /\ Len(buf) = G1CompressedSize

\* C3: for every valid point EncodeUncompressed does not fail and returns
\* 1 + 2 * FqElementSize bytes: for infinity the infinity flag and zeros,
\* otherwise a flag byte, the Montgomery-decoded x and the Montgomery-decoded
\* y, big-endian.
C3_UncompressedLayout ==
  (ops = << "EncodeUncompressed" >> /\ OnCurve(a))
    => /\ err = "nil"
       /\ Len(buf) = 1 + 2 * FqElementSize
       /\ IF IsInfinity(a)
          THEN buf = << serializationInfinity >> \o Zeros(2 * FqElementSize)
          ELSE /\ SubSeq(buf, 2, 1 + FqElementSize) = BEBytes[Val[montDecode[a.x]]]
               /\ SubSeq(buf, 2 + FqElementSize, 1 + 2 * FqElementSize)
                    = BEBytes[Val[montDecode[a.y]]]

\* C4: for every point other than infinity EncodeCompressed returns
\* G1CompressedSize bytes; byte 0 has the compressed bit set, the infinity
\* bit clear and the BIG_Y bit set iff IsHigherY holds of the point; the
\* other bytes are the Montgomery-decoded affine x, big-endian.
C4_CompressedLayout ==
  (ops = << "EncodeCompressed" >> /\ ~IsInfinity(a))
    => /\ err = "nil"
       /\ Len(buf) = G1CompressedSize
       /\ HasBit(buf[1], serializationCompressed)
       /\ ~HasBit(buf[1], serializationInfinity)
       /\ HasBit(buf[1], serializationBigY) <=> IsHigherY[a]
       /\ Payload = BEBytes[Val[montDecode[a.x]]]

C4_Witness ==
  /\ ops = << "EncodeCompressed" >>
  /\ ~IsInfinity(a)
  /\ HasBit(buf[1], serializationBigY)
  /\ Payload # Zeros(FqElementSize)

\* C5: an input of G1CompressedSize bytes with the compressed and infinity
\* bits set is accepted iff BIG_Y is clear and every coordinate byte is zero;
\* when accepted the receiver is the point at infinity, otherwise an error
\* is returned.
C5_InfinityAccepted ==
  (LastOp = "DecodeCompressed" /\ WellFormed /\ HasBit(buf[1], serializationInfinity))
    => IF ~HasBit(buf[1], serializationBigY) /\ Payload = Zeros(FqElementSize)
       THEN err = "nil" /\ IsInfinity(b)
       ELSE err \notin {"nil", "panic"}

C7_RangeCheck ==
  (LastOp = "DecodeCompressed" /\ WellFormed /\ ~HasBit(buf[1], serializationInfinity))
    => (AtLeastP(Payload) <=> err \in RangeErrors)

C7_Witness ==
  /\ LastOp = "DecodeCompressed"
  /\ WellFormed
  /\ ~HasBit(buf[1], serializationInfinity)
  /\ Payload = BEBytes[P]
  /\ err = "bn256: coordinate equals modulus"

\* C8: on a well-formed input that is not flagged infinity, with x < P:
\* when x^3 + 3 is no square mod P DecodeCompressed returns the not-a-square
\* error, and when it returns no error the receiver's y satisfies
\* y^2 = x^3 + 3 for the x of the input.
C8_NotASquare ==
  (/\ LastOp = "DecodeCompressed"
   /\ WellFormed
   /\ ~HasBit(buf[1], serializationInfinity)
   /\ ~AtLeastP(Payload))
    => /\ PowMod[RhsOf[BigEndian[Payload]], (P - 1) \div 2] = P - 1
            => err = "not a square mod P"
       /\ err = "nil"
            => /\ Val[montDecode[b.x]] = BigEndian[Payload]
               /\ MulMod[Val[montDecode[b.y]], Val[montDecode[b.y]]]
                    = RhsOf[BigEndian[Payload]]

C8_Witness ==
  /\ ops = << "DecodeCompressed" >>
  /\ WellFormed
  /\ ~HasBit(buf[1], serializationInfinity)
  /\ err = "not a square mod P"

\* C9: getYFromMontEncodedX of the Montgomery-encoded x = 1 returns no error
\* and the Montgomery encoding of 2 or of P - 2.
C9_RootOfFour ==
  (ops = << "getYFromMontEncodedX" >> /\ fx = newGFp[1])
    => (err = "nil" /\ fy \in {newGFp[2], newGFp[-2]})

\* C10: for an affine point other than infinity with y # 0 exactly one of
\* IsHigherY(P) and IsHigherY(-P) holds; with y = 0 neither holds.
C10_SignLaw ==
  (/\ ops \in {<< "Neg", "a.IsHigherY", "b.IsHigherY" >>,
               << "Neg", "b.IsHigherY", "a.IsHigherY" >>}
   /\ a.z = newGFp[1])
    => IF a.y = gfPLit[0]
       THEN ~higherA /\ ~higherB
       ELSE higherA # higherB

C10_Witness ==
  /\ ops = << "Neg", "a.IsHigherY", "b.IsHigherY" >>
  /\ a.z = newGFp[1]
  /\ a.y # gfPLit[0]
  /\ higherB
  /\ ~higherA

\* the y = 0 case of C10 is reached as well
C10_WitnessZeroY ==
  /\ ops = << "Neg", "a.IsHigherY", "b.IsHigherY" >>
  /\ a.y = gfPLit[0]

\* C11: for an affine point P with negation N, IsHigherY(N) is true when
\* gfpComp(N.y, P.y) > 0 and false when it is < 0, and gfpComp orders the
\* stored limbs as unsigned integers, most-significant limb first.
C11_AgreesWithGfpComp ==
  (ops = << "Neg", "b.IsHigherY", "gfpComp" >> /\ a.z = newGFp[1])
    => /\ cmp > 0 => higherB
       /\ cmp < 0 => ~higherB
       /\ cmp > 0 <=> Val[b.y] > Val[a.y]
       /\ cmp < 0 <=> Val[b.y] < Val[a.y]

C11_Witness ==
  /\ ops = << "Neg", "b.IsHigherY", "gfpComp" >>
  /\ a.z = newGFp[1]
  /\ cmp > 0
  /\ higherB

\* C12: for every nonzero field element f in Montgomery form,
\* gfpMul(f, Invert(f)) is the Montgomery encoding of 1, and Invert(f) is
\* f^(p-2) mod p in Montgomery form.
C12_InversionLaw ==
  (ops = << "Invert", "gfpMul" >> /\ fx # gfPLit[0])
    => /\ fz = newGFp[1]
       /\ Val[montDecode[fy]] = PowMod[Val[montDecode[fx]], P - 2]

C12_Witness ==
  /\ ops = << "Invert", "gfpMul" >>
  /\ fx \notin {gfPLit[0], newGFp[1]}
  /\ fz = newGFp[1]

\* C19: the multiplications gfP.Invert executes are the same, in number and
\* in order, for every operand: the run just made executed the sequence that
\* a run on any other operand executes.
C19_ConstantSchedule ==
  ops = << "Invert" >>
    => \A g \in FieldInputs : Invert[g].muls = muls

C19_Witness ==
  /\ ops = << "Invert" >>
  /\ fx = gfPLit[0]
  /\ Len(muls) > FpUint64Size * 8 * LimbBytes

\* C13: for every gfP2 element a, Square(a) and Mul(a, a) have the same x and
\* the same y, limb for limb.
C13_SquareIsMul ==
  ops = << "gfP2.Square", "gfP2.Mul" >> => e2 = e3

C13_Witness ==
  /\ ops = << "gfP2.Square", "gfP2.Mul" >>
  /\ q.x # gfPLit[0]
  /\ q.y # gfPLit[0]
  /\ e2 = e3

\* C14: for every nonzero gfP2 element a in Montgomery form,
\* Mul(a, Invert(a)) is the identity (x = 0, y = Montgomery one), also when
\* Invert writes its result into the element it reads.
C14_Fp2InversionLaw ==
  (/\ ops \in {<< "gfP2.Invert", "gfP2.Mul" >>,
               << "gfP2.Set", "gfP2.Invert", "gfP2.Mul" >>}
   /\ q # Fp2Zero)
    => e3 = Fp2One

C14_Witness ==
  /\ ops = << "gfP2.Set", "gfP2.Invert", "gfP2.Mul" >>
  /\ q.x # gfPLit[0]
  /\ q.y # gfPLit[0]
  /\ e3 = Fp2One

\* the k-fold product of base: the identity multiplied k times by base
Product[base \in GFP2, k \in Nat] ==
  IF k = 0 THEN Fp2One ELSE Mul[Product[base, k - 1], base]

\* the k-fold product of base for larger k, sixteen factors at a time:
\* (base^16)^(k div 16) * base^(k mod 16)
NFold[base \in GFP2, k \in Nat] ==
  IF k < 16 THEN Product[base, k]
  ELSE Mul[NFold[Product[base, 16], k \div 16], Product[base, k % 16]]

\* C15: Exp(a, n) is the n-fold product of a; Exp(a, 0) is the identity,
\* reached without a Mul; Exp(a, 1) is a.
C15_ExpIsNFoldProduct ==
  ops = << "gfP2.Set", "gfP2.Exp" >>
    => /\ e2 = NFold[q, n]
       /\ n = 0 => (e2 = Fp2One /\ muls = << >>)
       /\ n = 1 => e2 = q

C15_Witness ==
  /\ ops = << "gfP2.Set", "gfP2.Exp" >>
  /\ n > 256
  /\ q.x # gfPLit[0]
  /\ e2 \notin {Fp2One, Fp2Zero, q}

C15_WitnessZero ==
  /\ ops = << "gfP2.Set", "gfP2.Exp" >>
  /\ n = 0
  /\ q.x # gfPLit[0]

\* C18: MulXi(a) has x = 9*a.x + a.y and y = 9*a.y - a.x mod p and equals
\* Mul(a, xi) for xi = i + 9 in Montgomery form, also when the receiver is a.
C18_MulXi ==
  ops \in {<< "gfP2.MulXi", "gfP2.Mul" >>, << "gfP2.Set", "gfP2.MulXi", "gfP2.Mul" >>}
    => /\ e2 = e3
       /\ Val[e2.x] = (MulMod[9, Val[q.x]] + Val[q.y]) % P
       /\ Val[e2.y] = (MulMod[9, Val[q.y]] + (P - Val[q.x])) % P

C18_Witness ==
  /\ ops = << "gfP2.Set", "gfP2.MulXi", "gfP2.Mul" >>
  /\ q.x # gfPLit[0]
  /\ q.y # gfPLit[0]
  /\ e2 = e3

\* C16: on every input DecodeCompressed ends with success or with an error
\* value returned to the caller; neither it nor its helpers abort.
C16_NoAbort == LastOp = "DecodeCompressed" => err # "panic"

\* the root that getYFromMontEncodedX computed for the decoded x is the
\* higher of the two roots
RootIsHigher == b.y # getYFromMontEncodedX[b.x].y

\* C17: after DecodeCompressed succeeds on an input that is not infinity and
\* whose recovered y is not zero, IsHigherY of the result equals the BIG_Y bit
\* of the input, whichever root the square root returned.
C17_SignFixUp ==
  (/\ ops = << "DecodeCompressed", "b.IsHigherY" >>
   /\ ~HasBit(buf[1], serializationInfinity)
   /\ b.y # gfPLit[0])
    => (higherB <=> HasBit(buf[1], serializationBigY))

\* a decode that kept the root it computed, which was the higher one
C17_Witness ==
  /\ ops = << "DecodeCompressed", "b.IsHigherY" >>
  /\ ~HasBit(buf[1], serializationInfinity)
  /\ b.y # gfPLit[0]
  /\ HasBit(buf[1], serializationBigY)
  /\ b.y = getYFromMontEncodedX[b.x].y
  /\ higherB

\* a decode that negated the root it computed, which was the higher one
C17_WitnessNegated ==
  /\ ops = << "DecodeCompressed", "b.IsHigherY" >>
  /\ ~HasBit(buf[1], serializationInfinity)
  /\ b.y # gfPLit[0]
  /\ ~HasBit(buf[1], serializationBigY)
  /\ RootIsHigher
  /\ ~higherB

\* C20: the point that a successful DecodeCompressed of an encoding other
\* than infinity produces is the same for a fresh and for a used receiver, and
\* its z is the Montgomery one.
C20_ReceiverIndependent ==
  (/\ LastOp = "DecodeCompressed"
   /\ err = "nil"
   /\ ~HasBit(buf[1], serializationInfinity))
    => /\ b.z = newGFp[1]
       /\ \A r \in Receivers : DecodeCompressed[r, buf].e = b

\* C21: for every 33-byte input that DecodeCompressed accepts,
\* EncodeCompressed of the decoded point returns exactly that input, so no
\* two byte strings decode to the same point.
C21_CanonicalEncoding ==
  ops = << "DecodeCompressed", "b.EncodeCompressed" >> => (err = "nil" /\ enc = buf)

\* C22: for a field element v < p, Unmarshal of the bytes that Marshal wrote
\* returns no error and sets the receiver to exactly v, whatever limbs the
\* receiver held before.
C22_MarshalRoundTrip ==
  ops = << "Marshal", "Unmarshal" >>
    => (Len(buf) = FqElementSize /\ err = "nil" /\ fz = fx)

\* C23: whenever DecodeCompressed returns an error, the coordinates of a
\* receiver that held a point are the same as before the call.
C23_FrameOnError ==
  [][(CallDecodeCompressed /\ ~b.nil /\ err' \notin {"nil", "panic"})
       => (b'.x = b.x /\ b'.y = b.y /\ b'.z = b.z /\ b'.t = b.t)]_vars

====
